---- MODULE Spec2Model ----
(***************************************************************************)
(* A model of the PSDL Inspector backend: the generation endpoint          *)
(* (routers/generate.py) with its two LLM services, the validator wrapper  *)
(* and the text extraction the services apply to every LLM response.       *)
(*                                                                         *)
(* Python strings are sequences of characters, indexed from 0 by the       *)
(* helpers below as Python indexes them.        Optional[T] is a sequence *)
(* of length at most one: None is << >>, a value v is << v >>.             *)
(***************************************************************************)
EXTENDS Integers, Sequences, FiniteSets, TLC

\* ---------------------------------------------------------------- bounds

\* Largest max_retries a request carries in the model.
MaxRetries == 2

\* Longest LLM response handed to extraction, in chunks (see Chunks).
MaxChunks == 5

\* Most dependency terms of one logic rule of a scenario.
MaxTerms == 2

\* ------------------------------------------------- Python string helpers

None == << >>

Some(v) == << v >>

\* Python truthiness of an Optional[str]: None and "" are falsy.  (Names,
\* prompts and keys are atomic strings; only LLM texts are character sequences.)
Truthy(opt) == opt # None /\ opt[1] # ""

WhitespaceChars == {" ", "\n", "\t", "\r"}

\* s[a:b] for 0 <= a, 0 <= b.
Slice(s, a, b) == SubSeq(s, a + 1, IF b > Len(s) THEN Len(s) ELSE b)

\* Does sub occur in s at 0-based index i ?
OccursAt(s, sub, i) ==
    /\ i >= 0
    /\ i + Len(sub) <= Len(s)
    /\ \A k \in 1..Len(sub) : s[i + k] = sub[k]

\* str.find(sub, start): the lowest index >= start where sub occurs, or -1.
Find(s, sub, start) ==
    LET hits == {i \in start..(Len(s) - Len(sub)) : OccursAt(s, sub, i)}
    IN  IF hits = {} THEN -1
        ELSE CHOOSE i \in hits : \A j \in hits : i <= j

\* str.strip(): drop leading and trailing whitespace.
Strip(s) ==
    LET keep == {i \in 1..Len(s) : s[i] \notin WhitespaceChars}
    IN  IF keep = {} THEN << >>
        ELSE LET lo == CHOOSE i \in keep : \A j \in keep : i <= j
                 hi == CHOOSE i \in keep : \A j \in keep : i >= j
             IN  SubSeq(s, lo, hi)

\* The backquote character (SANY's lexer rejects it inside a string literal).
Backquote == "BQ"

\* The fence marker: three backquotes.
Fence == <<Backquote, Backquote, Backquote>>

FenceYaml == Fence \o <<"y", "a", "m", "l">>

Newline == <<"\n">>

\* The tail of _extract_yaml shared by the two tiers: the block from start
\* to the next fence, or the fallback when no fence follows start.
\* (end > start fails both when no fence is found and when the block is empty.)
FencedBlock(response, start, fallback) ==
    LET end == Find(response, Fence, start)
    IN  IF end > start THEN Strip(Slice(response, start, end)) ELSE fallback

\* Mutant: the last resort returns the response as it is, untrimmed.
AnyFenceTier_RawFallback(response) ==
    IF Find(response, Fence, 0) # -1
    THEN LET start0 == Find(response, Fence, 0) + 3
             newline_pos == Find(response, Newline, start0)
             start == IF newline_pos # -1 /\ newline_pos - start0 < 10
                      THEN newline_pos + 1 ELSE start0
         IN  FencedBlock(response, start, response)
    ELSE response

\* The any-fenced-block tier followed by the raw-response last resort.
AnyFenceTier(response) ==
    IF Find(response, Fence, 0) # -1
    THEN LET start0 == Find(response, Fence, 0) + 3
             newline_pos == Find(response, Newline, start0)
             start == IF newline_pos # -1 /\ newline_pos - start0 < 10
                      THEN newline_pos + 1 ELSE start0
         IN  FencedBlock(response, start, Strip(response))
    ELSE Strip(response)

\* OllamaService._extract_yaml
Ollama_extract_yaml(response) ==
    IF Find(response, FenceYaml, 0) # -1
    THEN FencedBlock(response, Find(response, FenceYaml, 0) + 7,
                     AnyFenceTier(response))
    ELSE AnyFenceTier(response)

\* Mutant: the language-identifier line of an untagged fence is not skipped.
OpenAI_extract_yaml_NoTagSkip(response) ==
    LET tagged == Find(response, FenceYaml, 0)
        tier1_end == IF tagged # -1 THEN Find(response, Fence, tagged + 7) ELSE -1
        bare == Find(response, Fence, 0)
        start2 == bare + 3
        tier2_end == IF bare # -1 THEN Find(response, Fence, start2) ELSE -1
    IN  IF tagged # -1 /\ tier1_end > tagged + 7
        THEN Strip(Slice(response, tagged + 7, tier1_end))
        ELSE IF bare # -1 /\ tier2_end > start2
        THEN Strip(Slice(response, start2, tier2_end))
        ELSE Strip(response)

\* OpenAIService._extract_yaml
OpenAI_extract_yaml(response) ==
    LET tagged == Find(response, FenceYaml, 0)
        tier1_end == IF tagged # -1 THEN Find(response, Fence, tagged + 7) ELSE -1
        bare == Find(response, Fence, 0)
        nl == IF bare # -1 THEN Find(response, Newline, bare + 3) ELSE -1
        start2 == IF nl # -1 /\ nl - (bare + 3) < 10 THEN nl + 1 ELSE bare + 3
        tier2_end == IF bare # -1 THEN Find(response, Fence, start2) ELSE -1
    IN  IF tagged # -1 /\ tier1_end > tagged + 7
        THEN Strip(Slice(response, tagged + 7, tier1_end))
        ELSE IF bare # -1 /\ tier2_end > start2
        THEN Strip(Slice(response, start2, tier2_end))
        ELSE Strip(response)

\* ------------------------------------------------------------ validator

\* The texts the LLM services can hand to the validator in this model, after
\* extraction: two that psdl-lang accepts and two that it rejects.
TextAki == <<"A">>

TextUnused == <<"U">>

\* psdl-lang's IR for the two accepted texts: ordered mappings as sequences.
\* ScenarioAki: Cr -> cr_delta -> aki_stage1, nothing unused.
ScenarioAki ==
    [name |-> "aki",
     signals |-> <<"Cr">>,
     trends |-> <<[name |-> "cr_delta", signal |-> Some("Cr")]>>,
     logic |-> <<[name |-> "aki_stage1", terms |-> <<"cr_delta">>]>>]

\* ScenarioUnused: signal HR and trend cr_slope are referenced by nothing.
ScenarioUnused ==
    [name |-> "unused",
     signals |-> <<"Cr", "HR">>,
     trends |-> <<[name |-> "cr_delta", signal |-> Some("Cr")],
                  [name |-> "cr_slope", signal |-> Some("Cr")]>>,
     logic |-> <<[name |-> "aki_stage1", terms |-> <<"cr_delta">>]>>]

\* psdl.core.parse_scenario, the external parser: it returns the IR or raises
\* with a message that depends on the content.
psdl_parse(content) ==
    IF content = TextAki THEN [raised |-> FALSE, scenario |-> Some(ScenarioAki), msg |-> << >>]
    ELSE IF content = TextUnused
    THEN [raised |-> FALSE, scenario |-> Some(ScenarioUnused), msg |-> << >>]
    ELSE [raised |-> TRUE, scenario |-> None, msg |-> <<"invalid PSDL: ">> \o content]

\* The elements of a sequence, as a set.
Range(seq) == {seq[i] : i \in 1..Len(seq)}

SignalHint(sig_name) ==
    [message |-> <<"Signal '", sig_name, "' is defined but not used in any trend">>,
     severity |-> "warning",
     path |-> <<"/signals/", sig_name>>]

TrendHint(trend_name) ==
    [message |-> <<"Trend '", trend_name, "' is defined but not used in any logic rule">>,
     severity |-> "warning",
     path |-> <<"/trends/", trend_name>>]

\* Mutant: a trend counts as used as soon as any logic rule exists.
generate_inspector_hints_AnyLogic(scenario) ==
    LET used_signals == {t.signal[1] : t \in {u \in Range(scenario.trends) : Truthy(u.signal)}}
        SigUnused(n) == n \notin used_signals
        TrendUnused(t) == scenario.logic = << >>
        sigs == SelectSeq(scenario.signals, SigUnused)
        trs == SelectSeq(scenario.trends, TrendUnused)
    IN  [i \in 1..Len(sigs) |-> SignalHint(sigs[i])]
        \o [i \in 1..Len(trs) |-> TrendHint(trs[i].name)]

\* _generate_inspector_hints
generate_inspector_hints(scenario) ==
    LET used_signals == {t.signal[1] : t \in {u \in Range(scenario.trends) : Truthy(u.signal)}}
        used_trends == UNION {Range(l.terms) : l \in Range(scenario.logic)}
        SigUnused(n) == n \notin used_signals
        TrendUnused(t) == t.name \notin used_trends
        sigs == SelectSeq(scenario.signals, SigUnused)
        trs == SelectSeq(scenario.trends, TrendUnused)
    IN  [i \in 1..Len(sigs) |-> SignalHint(sigs[i])]
        \o [i \in 1..Len(trs) |-> TrendHint(trs[i].name)]

\* Mutant: the hints are reported as errors of an accepted scenario.
validate_scenario_HintsAsErrors(content) ==
    LET parsed == psdl_parse(content)
    IN  IF parsed.raised
        THEN [scenario |-> None,
              errors |-> <<[message |-> parsed.msg, severity |-> "error", path |-> << >>]>>,
              warnings |-> << >>]
        ELSE [scenario |-> parsed.scenario,
              errors |-> generate_inspector_hints(parsed.scenario[1]),
              warnings |-> << >>]

\* validate_scenario: (scenario or None, errors, warnings)
validate_scenario(content) ==
    LET parsed == psdl_parse(content)
    IN  IF parsed.raised
        THEN [scenario |-> None,
              errors |-> <<[message |-> parsed.msg, severity |-> "error", path |-> << >>]>>,
              warnings |-> << >>]
        ELSE [scenario |-> parsed.scenario,
              errors |-> << >>,
              warnings |-> generate_inspector_hints(parsed.scenario[1])]

\* [e.message for e in items]
Messages(items) == [i \in 1..Len(items) |-> items[i].message]

\* ------------------------------------------------------------- services

VARIABLES
    openai_service,   \* the OpenAIService singleton: api_key, base_url, model
    ollama_service,   \* the OllamaService singleton: base_url, model
    sess,             \* per request: the locals of generate_scenario, its
                      \* position, its outcome and the calls it has made
    raw_response,     \* an LLM response handed to _extract_yaml
    extraction,       \* what each service's _extract_yaml returned for it
    psdl_scenario,    \* a PSDLScenario handed to generate_outline
    outline_builds,   \* the OutlineResponse objects built from it so far
    inspector_hints,  \* what _generate_inspector_hints returned for it
    api_reply         \* the last answer of the /validate and /export/draft
                      \* endpoints, with the content it answers

vars == <<openai_service, ollama_service, sess,
          raw_response, extraction, psdl_scenario, outline_builds,
          inspector_hints, api_reply>>

\* What the generation endpoint never touches.
other_vars == <<raw_response, extraction, psdl_scenario, outline_builds,
                inspector_hints, api_reply>>

\* Per-call timeouts (seconds) the services pass to httpx.
OpenAIGenerateTimeout == 60

OpenAICorrectTimeout == 60

OllamaGenerateTimeout == 300

OllamaCorrectTimeout == 120

\* One call made by a session.  result is "pending" while the call is
\* awaited, then "returned" or "raised"; out is what it returned.
Call(op, provider, model, timeout, prompt, clinical_context, yaml, errors, result, out) ==
    [op |-> op, provider |-> provider, model |-> model, timeout |-> timeout,
     prompt |-> prompt, clinical_context |-> clinical_context,
     yaml |-> yaml, errors |-> errors, result |-> result, out |-> out]

\* OpenAIService.is_configured
OpenAI_is_configured(self) == Truthy(self.api_key)

\* OpenAIService.generate_scenario, up to the awaited POST: no model
\* parameter, the payload carries self.model.
OpenAI_generate_scenario(self, prompt, clinical_context) ==
    Call("generate", "openai", self.model, OpenAIGenerateTimeout,
         prompt, clinical_context, << >>, << >>, "pending", << >>)

\* OpenAIService.correct_scenario, up to the awaited POST.
OpenAI_correct_scenario(self, original_yaml, errors, original_prompt) ==
    Call("correct", "openai", self.model, OpenAICorrectTimeout,
         original_prompt, None, original_yaml, errors, "pending", << >>)

\* OllamaService.generate_scenario, up to the awaited POST: model or self.model.
Ollama_generate_scenario(self, prompt, model, clinical_context) ==
    Call("generate", "ollama", IF Truthy(model) THEN model[1] ELSE self.model,
         OllamaGenerateTimeout, prompt, clinical_context, << >>, << >>,
         "pending", << >>)

\* Mutant: the override is dropped, the payload carries self.model.
Ollama_correct_scenario_DefaultModel(self, original_yaml, errors, original_prompt, model) ==
    Call("correct", "ollama", self.model, OllamaCorrectTimeout, original_prompt,
         None, original_yaml, errors, "pending", << >>)

\* Mutant: the correction call is given a longer timeout than generation.
Ollama_correct_scenario_LongTimeout(self, original_yaml, errors, original_prompt, model) ==
    Call("correct", "ollama", IF Truthy(model) THEN model[1] ELSE self.model,
         OllamaGenerateTimeout + OllamaCorrectTimeout, original_prompt, None,
         original_yaml, errors, "pending", << >>)

\* OllamaService.correct_scenario, up to the awaited POST.
Ollama_correct_scenario(self, original_yaml, errors, original_prompt, model) ==
    Call("correct", "ollama", IF Truthy(model) THEN model[1] ELSE self.model,
         OllamaCorrectTimeout, original_prompt, None, original_yaml, errors,
         "pending", << >>)

\* What a service returns for a raw LLM response: self._extract_yaml(content).
ServiceReturn(provider, raw) ==
    IF provider = "openai" THEN OpenAI_extract_yaml(raw) ELSE Ollama_extract_yaml(raw)

\* ------------------------------------------------------------- requests

\* Provider ids a request may carry, and str.lower() on them.
Providers == {"openai", "OpenAI", "ollama", "azure"}

Lower(p) == IF p = "OpenAI" THEN "openai" ELSE p

\* Model overrides: absent, empty, or a model name.
Models == {None, Some(""), Some("llama3")}

Prompts == {"detect AKI", "detect sepsis"}

Contexts == {None, Some("KDIGO")}

RetryBudgets == 0..MaxRetries

\* GenerateRequest
Requests ==
    [prompt : Prompts, clinical_context : Contexts, provider : Providers,
     model : Models, max_retries : RetryBudgets]

B == Backquote

\* Raw LLM responses: a tagged fence around an accepted text, an untagged
\* fence around a rejected one, and two unfenced texts.
RawResponses ==
    { <<B, B, B, "y", "a", "m", "l", "\n", "A", "\n", B, B, B>>,
      <<"s", "u", "r", "e", ":", B, B, B, "\n", "x", "\n", B, B, B>>,
      <<" ", "z", "\n">>,
      <<"U", "\n">> }

\* ----------------------------------------------------- generate_scenario

Sessions == {1, 2}

NoRequest ==
    [prompt |-> "", clinical_context |-> None, provider |-> "", model |-> None,
     max_retries |-> 0]

\* GenerateResponse
GenerateResponse(yaml, valid, errors, warnings, attempts) ==
    [yaml |-> yaml, valid |-> valid, errors |-> errors, warnings |-> warnings,
     attempts |-> attempts]

NoResponse == GenerateResponse(<< >>, FALSE, << >>, << >>, 0)

\* How a request ended: a response body, or a raised HTTPException.
NoOutcome == [kind |-> "none", status_code |-> 0, body |-> NoResponse]

Raised(status_code) == [kind |-> "http_error", status_code |-> status_code, body |-> NoResponse]

Returned(body) == [kind |-> "response", status_code |-> 200, body |-> body]

IdleSession ==
    [pc |-> "idle", request |-> NoRequest, provider |-> "",
     generated_yaml |-> << >>, scenario |-> None, errors |-> << >>,
     warnings |-> << >>, attempts |-> 0, retry_count |-> 0,
     outcome |-> NoOutcome, calls |-> << >>]

\* The last call of the session, completed.
Complete(st, result, out) ==
    [st EXCEPT !.calls[Len(st.calls)].result = result,
               !.calls[Len(st.calls)].out = out]

\* raise HTTPException(status_code=...)
Fail(st, status_code) == [st EXCEPT !.pc = "done", !.outcome = Raised(status_code)]

\* Lines 80-90: the initial generation call of the selected service.
InitialGeneration(st) ==
    [st EXCEPT
       !.pc = "await_generate",
       !.calls = Append(@,
          IF st.provider = "openai"
          THEN OpenAI_generate_scenario(openai_service, st.request.prompt,
                                        st.request.clinical_context)
          ELSE Ollama_generate_scenario(ollama_service, st.request.prompt,
                                        st.request.model,
                                        st.request.clinical_context))]

\* Lines 93 and 120: validate_scenario(generated_yaml) on the text the
\* service returned.
Validate(st, text) ==
    LET v == validate_scenario(text)
    IN  [st EXCEPT
           !.generated_yaml = text,
           !.scenario = v.scenario,
           !.errors = v.errors,
           !.warnings = v.warnings,
           !.calls = Append(@, Call("validate", "", "", 0, "", None, text,
                                    Messages(v.errors), "returned",
                                    Messages(v.warnings)))]

\* Mutant: off by one, a retry too many.
LoopCondition_OffByOne(errors, retry_count, max_retries) ==
    Len(errors) > 0 /\ retry_count <= max_retries

\* Mutant: retries while budget remains, valid or not.
LoopCondition_IgnoresErrors(errors, retry_count, max_retries) ==
    retry_count < max_retries

\* Line 98: the loop condition.
LoopCondition(errors, retry_count, max_retries) ==
    Len(errors) > 0 /\ retry_count < max_retries

\* Mutant: retry_count is not advanced.
Correction_NoRetryCount(st) ==
    [st EXCEPT
       !.pc = "await_correct",
       !.attempts = @ + 1,
       !.calls = Append(@,
          IF st.provider = "openai"
          THEN OpenAI_correct_scenario(openai_service, st.generated_yaml,
                                       Messages(st.errors), st.request.prompt)
          ELSE Ollama_correct_scenario(ollama_service, st.generated_yaml,
                                       Messages(st.errors), st.request.prompt,
                                       st.request.model))]

\* Mutant: the errors of all validations so far are sent, not the last ones.
Correction_AllErrors(st) ==
    LET IsValidation(c) == c.op = "validate"
        validations == SelectSeq(st.calls, IsValidation)
        RECURSIVE Collected(_)
        Collected(n) == IF n = 0 THEN << >>
                        ELSE Collected(n - 1) \o validations[n].errors
        error_messages == Collected(Len(validations))
    IN  [st EXCEPT
           !.pc = "await_correct",
           !.retry_count = @ + 1,
           !.attempts = @ + 1,
           !.calls = Append(@,
              IF st.provider = "openai"
              THEN OpenAI_correct_scenario(openai_service, st.generated_yaml,
                                           error_messages, st.request.prompt)
              ELSE Ollama_correct_scenario(ollama_service, st.generated_yaml,
                                           error_messages, st.request.prompt,
                                           st.request.model))]

\* Mutant: the draft is kept in one place for all requests, so a correction
\* sends the draft another request in flight has put there.
Correction_SharedDraft(st) ==
    LET others == {t \in Sessions : /\ sess[t].request # st.request
                                    /\ sess[t].generated_yaml # << >>}
        draft == IF others = {} THEN st.generated_yaml
                 ELSE sess[CHOOSE t \in others : TRUE].generated_yaml
    IN  [st EXCEPT
           !.pc = "await_correct",
           !.retry_count = @ + 1,
           !.attempts = @ + 1,
           !.calls = Append(@,
              IF st.provider = "openai"
              THEN OpenAI_correct_scenario(openai_service, draft,
                                           Messages(st.errors), st.request.prompt)
              ELSE Ollama_correct_scenario(ollama_service, draft,
                                           Messages(st.errors), st.request.prompt,
                                           st.request.model))]

\* Lines 99-117: one turn of the self-correction loop up to the awaited call.
Correction(st) ==
    LET error_messages == Messages(st.errors)
    IN  [st EXCEPT
           !.pc = "await_correct",
           !.retry_count = @ + 1,
           !.attempts = @ + 1,
           !.calls = Append(@,
              IF st.provider = "openai"
              THEN OpenAI_correct_scenario(openai_service, st.generated_yaml,
                                           error_messages, st.request.prompt)
              ELSE Ollama_correct_scenario(ollama_service, st.generated_yaml,
                                           error_messages, st.request.prompt,
                                           st.request.model))]

\* Mutant: the response counts retries, not attempts.
Respond_CountsRetries(st) ==
    [st EXCEPT
       !.pc = "done",
       !.outcome = Returned(GenerateResponse(st.generated_yaml,
                                             Len(st.errors) = 0,
                                             Messages(st.errors),
                                             Messages(st.warnings),
                                             st.retry_count))]

\* Lines 122-128: the response.
Respond(st) ==
    [st EXCEPT
       !.pc = "done",
       !.outcome = Returned(GenerateResponse(st.generated_yaml,
                                             Len(st.errors) = 0,
                                             Messages(st.errors),
                                             Messages(st.warnings),
                                             st.attempts))]

\* Lines 98-128 from the loop test on: another correction or the response.
LoopOrRespond(st) ==
    IF LoopCondition(st.errors, st.retry_count, st.request.max_retries)
    THEN Correction(st)
    ELSE Respond(st)

\* Mutant: an unrecognised provider falls through to ollama, as the
\* else-branches of the generation calls do.
ProviderCheck_DefaultsToOllama(st) ==
    IF st.provider = "openai"
    THEN IF ~OpenAI_is_configured(openai_service)
         THEN Fail(st, 503) ELSE InitialGeneration(st)
    ELSE [st EXCEPT !.pc = "await_is_available",
                    !.calls = Append(@, Call("is_available", "ollama", "", 0, "",
                                             None, << >>, << >>, "pending", << >>))]

\* Lines 57-76 for provider openai, and the unknown-provider branch: the
\* synchronous start of the handler up to its first await.
ProviderCheck(st) ==
    IF st.provider = "openai"
    THEN LET probed == [st EXCEPT !.calls = Append(@,
                 Call("is_configured", "openai", "", 0, "", None, << >>, << >>,
                      "returned",
                      IF OpenAI_is_configured(openai_service)
                      THEN <<"True">> ELSE <<"False">>))]
         IN  IF ~OpenAI_is_configured(openai_service)
             THEN Fail(probed, 503)
             ELSE InitialGeneration(probed)
    ELSE IF st.provider = "ollama"
    THEN [st EXCEPT !.pc = "await_is_available",
                    !.calls = Append(@, Call("is_available", "ollama", "", 0, "",
                                             None, << >>, << >>, "pending", << >>))]
    ELSE Fail(st, 400)

\* POST /generate/scenario arrives with one of the given requests: line 57
\* and the provider checks.
ReceiveFrom(s, requests) ==
    /\ sess[s].pc = "idle"
    /\ \E request \in requests :
         sess' = [sess EXCEPT ![s] =
                    ProviderCheck([@ EXCEPT !.request = request,
                                            !.provider = Lower(request.provider)])]
    /\ UNCHANGED <<openai_service, ollama_service, other_vars>>

Receive(s) == ReceiveFrom(s, Requests)

\* Mutant: the result of the probe is not looked at.
AfterProbe_IgnoresResult(st, available) ==
    InitialGeneration(Complete(st, "returned",
                               IF available THEN <<"True">> ELSE <<"False">>))

\* Lines 67-71 after is_available() returned.
AfterProbe(st, available) ==
    IF available
    THEN InitialGeneration(Complete(st, "returned", <<"True">>))
    ELSE Fail(Complete(st, "returned", <<"False">>), 503)

\* ollama_service.is_available() returns: True on HTTP 200, False on any
\* other status or any exception.
IsAvailableReturns(s) ==
    /\ sess[s].pc = "await_is_available"
    /\ \E available \in BOOLEAN :
         sess' = [sess EXCEPT ![s] = AfterProbe(@, available)]
    /\ UNCHANGED <<openai_service, ollama_service, other_vars>>

\* Lines 93-97 after the initial generation returned.
AfterGeneration(st, text) ==
    LoopOrRespond([Validate(Complete(st, "returned", text), text)
                     EXCEPT !.attempts = 1, !.retry_count = 0])

\* Mutant: the corrected text is not validated again.
AfterCorrection_NoRevalidate(st, text) ==
    LoopOrRespond([Complete(st, "returned", text) EXCEPT !.generated_yaml = text])

\* Mutant: the warnings of the re-validation are dropped, those of the
\* candidate before stay.
AfterCorrection_StaleWarnings(st, text) ==
    LoopOrRespond([Validate(Complete(st, "returned", text), text)
                     EXCEPT !.warnings = st.warnings])

\* Line 120 after a correction returned, and the next loop test.
AfterCorrection(st, text) ==
    LoopOrRespond(Validate(Complete(st, "returned", text), text))

\* Mutant: the exception is swallowed and the draft returned as invalid.
ProviderFailure_Swallowed(st) == Respond(Complete(st, "raised", << >>))

\* Mutant: a failed call is retried while budget remains.
ProviderFailure_Retried(st) ==
    IF st.retry_count < st.request.max_retries
    THEN Correction(Complete(st, "raised", << >>))
    ELSE Fail(Complete(st, "raised", << >>), 500)

\* Lines 131-132: any exception of a service call becomes HTTP 500.
ProviderFailure(st) == Fail(Complete(st, "raised", << >>), 500)

\* The awaited generate_scenario call returns the extracted text.
GenerateReturns(s) ==
    /\ sess[s].pc = "await_generate"
    /\ \E raw \in RawResponses :
         sess' = [sess EXCEPT ![s] =
                    AfterGeneration(@, ServiceReturn(sess[s].provider, raw))]
    /\ UNCHANGED <<openai_service, ollama_service, other_vars>>

\* The awaited generate_scenario call raises (transport, status, payload).
GenerateRaises(s) ==
    /\ sess[s].pc = "await_generate"
    /\ sess' = [sess EXCEPT ![s] = ProviderFailure(@)]
    /\ UNCHANGED <<openai_service, ollama_service, other_vars>>

\* The awaited correct_scenario call returns the extracted text.
CorrectReturns(s) ==
    /\ sess[s].pc = "await_correct"
    /\ \E raw \in RawResponses :
         sess' = [sess EXCEPT ![s] =
                    AfterCorrection(@, ServiceReturn(sess[s].provider, raw))]
    /\ UNCHANGED <<openai_service, ollama_service, other_vars>>

\* The awaited correct_scenario call raises.
CorrectRaises(s) ==
    /\ sess[s].pc = "await_correct"
    /\ sess' = [sess EXCEPT ![s] = ProviderFailure(@)]
    /\ UNCHANGED <<openai_service, ollama_service, other_vars>>

\* Environment variable OPENAI_API_KEY at import time: unset, empty or set.
ApiKeys == {None, Some(""), Some("sk-test")}

\* The two service singletons as constructed at import, no request yet.
ServicesInit ==
    /\ \E key \in ApiKeys :
         openai_service = [api_key |-> key,
                           base_url |-> "https://api.openai.com/v1",
                           model |-> "gpt-4o-mini"]
    /\ ollama_service = [base_url |-> "http://localhost:11434",
                         model |-> "mistral-small"]
    /\ sess = [s \in Sessions |-> IdleSession]

\* No content request answered yet.
NoReply ==
    [endpoint |-> "", content |-> << >>, validated |-> None,
     status_code |-> 0, body |-> None]

\* No extraction under way.
NoExtraction == [openai |-> << >>, ollama |-> << >>]

\* An empty scenario.
NoScenario == [name |-> "", signals |-> << >>, trends |-> << >>, logic |-> << >>]

Init ==
    /\ ServicesInit
    /\ raw_response = << >>
    /\ extraction = NoExtraction
    /\ psdl_scenario = NoScenario
    /\ outline_builds = << >>
    /\ inspector_hints = None
    /\ api_reply = NoReply

\* One request at a time: only session 1 is ever used.
SoloSessions == {1}

Next ==
    \E s \in SoloSessions :
        \/ Receive(s)
        \/ IsAvailableReturns(s)
        \/ GenerateReturns(s)
        \/ GenerateRaises(s)
        \/ CorrectReturns(s)
        \/ CorrectRaises(s)

Spec == Init /\ [][Next]_vars

\* Every awaited call comes back: it returns or it raises.  (httpx gives
\* each call a timeout, so none is awaited for ever.)
CallsComeBack ==
    \A s \in SoloSessions :
        /\ WF_vars(IsAvailableReturns(s))
        /\ WF_vars(GenerateReturns(s) \/ GenerateRaises(s))
        /\ WF_vars(CorrectReturns(s) \/ CorrectRaises(s))

SpecLive == Spec /\ CallsComeBack

\* ------------------------------------------------------- reading the log

AdapterOps == {"generate", "correct"}

ProbeOps == {"is_configured", "is_available"}

\* The positions of the calls of a session whose op is in ops.
CallsOf(st, ops) == {i \in 1..Len(st.calls) : st.calls[i].op \in ops}

NumValidations(st) == Cardinality(CallsOf(st, {"validate"}))

\* The last Validator call of a session that has validated something.
LastValidation(st) ==
    st.calls[CHOOSE i \in CallsOf(st, {"validate"}) :
                \A j \in CallsOf(st, {"validate"}) : j <= i]

AdapterRaised(st) ==
    \E i \in CallsOf(st, AdapterOps) : st.calls[i].result = "raised"

HasResponse(st) == st.outcome.kind = "response"

\* ------------------------------------------------------------------ C1

\* C1: whenever a session returns a result, its attempts count lies in
\* 1..max_retries+1 and equals the number of candidates validated so far;
\* while a correction is awaited the count is one ahead of the validations
\* (it is incremented before the call), so no index is skipped or repeated.
\* With max_retries = 0 no correct call is ever made and a result has
\* attempts = 1.
C1_AttemptsInRange ==
    \A s \in Sessions :
      LET st == sess[s] IN
        /\ HasResponse(st) =>
             /\ st.outcome.body.attempts \in 1..(st.request.max_retries + 1)
             /\ st.outcome.body.attempts = NumValidations(st)
        /\ st.pc = "await_correct" => st.attempts = NumValidations(st) + 1
        /\ st.pc \in {"idle", "await_is_available", "await_generate"} =>
             st.attempts = 0 /\ NumValidations(st) = 0
        /\ st.request.max_retries = 0 =>
             /\ CallsOf(st, {"correct"}) = {}
             /\ HasResponse(st) => st.outcome.body.attempts = 1

\* A result after one correction, strictly inside the retry budget.
C1_Witness ==
    \E s \in Sessions :
      /\ HasResponse(sess[s])
      /\ sess[s].request.max_retries = 2
      /\ sess[s].outcome.body.attempts = 2

\* ------------------------------------------------------------------ C2

\* C2: as soon as a validation reports no error (after k <= max_retries
\* rejected candidates), the session has returned valid = true with
\* attempts = k + 1, and that validation is its last call.
C2_RetryTermination ==
    \A s \in Sessions :
      LET st == sess[s] IN
        \A i \in CallsOf(st, {"validate"}) :
          st.calls[i].errors = << >> =>
            /\ i = Len(st.calls)
            /\ \A j \in CallsOf(st, {"validate"}) \ {i} : st.calls[j].errors # << >>
            /\ st.pc = "done"
            /\ HasResponse(st)
            /\ st.outcome.body.valid
            /\ st.outcome.body.attempts = NumValidations(st)
            /\ NumValidations(st) - 1 <= st.request.max_retries

\* Two rejected candidates, then an accepted one.
C2_Witness ==
    \E s \in Sessions :
      /\ HasResponse(sess[s])
      /\ sess[s].outcome.body.valid
      /\ sess[s].outcome.body.attempts = 3
      /\ ~AdapterRaised(sess[s])

\* ------------------------------------------------------------------ C3

\* C3: once max_retries + 1 candidates have been validated and the last one
\* was rejected, the session has returned (not raised) valid = false,
\* attempts = max_retries + 1, the last candidate's text and the messages of
\* that last validation in the validator's order.
C3_RetryExhaustion ==
    \A s \in Sessions :
      LET st == sess[s] IN
        ( /\ NumValidations(st) = st.request.max_retries + 1
          /\ LastValidation(st).errors # << >> ) =>
            /\ st.pc = "done"
            /\ st.outcome = Returned(GenerateResponse(
                                LastValidation(st).yaml,
                                FALSE,
                                LastValidation(st).errors,
                                << >>,
                                st.request.max_retries + 1))
            /\ st.request.max_retries = 0 =>
                 /\ st.outcome.body.attempts = 1
                 /\ Len(st.outcome.body.errors) = 1

\* A budget of two retries used up, the third candidate still rejected.
C3_Witness ==
    \E s \in Sessions :
      /\ HasResponse(sess[s])
      /\ ~sess[s].outcome.body.valid
      /\ sess[s].request.max_retries = 2
      /\ NumValidations(sess[s]) = 3

\* ------------------------------------------------------------------ C4

\* The session has passed the provider checks and ended.
EndedInTry(st) == st.pc = "done" /\ CallsOf(st, {"generate"}) # {}

Succeeded(st) == HasResponse(st) /\ st.outcome.body.valid

Exhausted(st) == HasResponse(st) /\ ~st.outcome.body.valid

Failed(st) == st.outcome.kind = "http_error"

\* C4: a session that entered the generation loop ends in exactly one of
\* three ways.  It returns valid = true iff its last validation reported no
\* error; it returns valid = false iff max_retries + 1 candidates were
\* validated and the last validation reported errors (then attempts =
\* max_retries + 1); it raises iff a generate or correct call raised, and
\* then no body is returned.
C4_TerminalOutcomes ==
    \A s \in Sessions :
      LET st == sess[s]
          validated == NumValidations(st) > 0
      IN  EndedInTry(st) =>
            /\ Cardinality({k \in {"s", "e", "f"} :
                              \/ k = "s" /\ Succeeded(st)
                              \/ k = "e" /\ Exhausted(st)
                              \/ k = "f" /\ Failed(st)}) = 1
            /\ Succeeded(st) <=> (validated /\ LastValidation(st).errors = << >>)
            /\ Exhausted(st) <=>
                 /\ validated
                 /\ NumValidations(st) = st.request.max_retries + 1
                 /\ LastValidation(st).errors # << >>
            /\ Exhausted(st) => st.outcome.body.attempts = st.request.max_retries + 1
            /\ Failed(st) <=> AdapterRaised(st)
            /\ Failed(st) => st.outcome.body = NoResponse

\* A session that failed in a correction call, after a rejected candidate.
C4_Witness ==
    \E s \in Sessions :
      /\ EndedInTry(sess[s])
      /\ Failed(sess[s])
      /\ NumValidations(sess[s]) = 1
      /\ sess[s].calls[Len(sess[s].calls)].op = "correct"

\* ------------------------------------------------------------------ C5

\* C5: a generate or correct call that raised is the last call of its
\* session (no retry, no further adapter or validator call, whatever budget
\* remains), and the session has ended with HTTP 500 and no response body.
C5_ProviderFailureFatal ==
    \A s \in Sessions :
      LET st == sess[s] IN
        \A i \in CallsOf(st, AdapterOps) :
          st.calls[i].result = "raised" =>
            /\ i = Len(st.calls)
            /\ st.pc = "done"
            /\ st.outcome = Raised(500)
            /\ ~HasResponse(st)

\* The initial generation raised while the whole retry budget remained.
C5_Witness ==
    \E s \in Sessions :
      /\ sess[s].request.max_retries = 2
      /\ sess[s].calls # << >>
      /\ sess[s].calls[Len(sess[s].calls)].op = "generate"
      /\ sess[s].calls[Len(sess[s].calls)].result = "raised"

\* ------------------------------------------------------------------ C6

\* C6: a request whose provider id, lower-cased, is neither openai nor
\* ollama ends with HTTP 400 without any call: no readiness probe, no
\* generate, no correct, no Validator call.
C6_UnknownProvider ==
    \A s \in Sessions :
      LET st == sess[s] IN
        (st.pc # "idle" /\ Lower(st.request.provider) \notin {"openai", "ollama"}) =>
          /\ st.pc = "done"
          /\ st.outcome = Raised(400)
          /\ st.calls = << >>

\* A request for provider azure has been answered.
C6_Witness ==
    \E s \in Sessions :
      sess[s].pc = "done" /\ sess[s].request.provider = "azure"

\* ------------------------------------------------------------------ C7

\* C7: when the readiness check of the selected provider reports false
\* (openai: no non-empty API key; ollama: the probe answers false), the
\* session ends with HTTP 503 and has called neither generate, correct nor
\* the Validator.
C7_ProviderUnavailable ==
    \A s \in Sessions :
      LET st == sess[s]
          notReady ==
            \/ \E i \in CallsOf(st, ProbeOps) : st.calls[i].out = <<"False">>
            \/ st.provider = "openai" /\ ~Truthy(openai_service.api_key)
      IN  notReady =>
            /\ st.pc = "done"
            /\ st.outcome = Raised(503)
            /\ CallsOf(st, AdapterOps \cup {"validate"}) = {}

\* The ollama probe answered false and the request has ended.
C7_Witness ==
    \E s \in Sessions :
      /\ sess[s].pc = "done"
      /\ sess[s].provider = "ollama"
      /\ \E i \in CallsOf(sess[s], {"is_available"}) :
           sess[s].calls[i].out = <<"False">>

\* ------------------------------------------------------------------ C8

\* C8: the calls of a session are sequential and ordered generate, validate,
\* (correct, validate)*.  At most one call is pending and it is the latest;
\* there is at most one generate and only readiness probes precede it; every
\* Validator call directly follows an adapter call that returned and
\* validates its output; every adapter call that returned is directly
\* followed by its validation; every correct call directly follows a
\* validation that reported errors.
C8_CallOrder ==
    \A s \in Sessions :
      LET st == sess[s]
          c == st.calls
      IN  /\ \A i \in 1..Len(c) : c[i].result = "pending" => i = Len(c)
          /\ Cardinality(CallsOf(st, {"generate"})) <= 1
          /\ \A i \in CallsOf(st, {"generate"}) :
               \A j \in 1..(i - 1) : c[j].op \in ProbeOps
          /\ CallsOf(st, {"validate", "correct"}) # {} => CallsOf(st, {"generate"}) # {}
          /\ \A i \in CallsOf(st, {"validate"}) :
               /\ i > 1
               /\ c[i - 1].op \in AdapterOps
               /\ c[i - 1].result = "returned"
               /\ c[i].yaml = c[i - 1].out
          /\ \A i \in CallsOf(st, AdapterOps) :
               c[i].result = "returned" => (i < Len(c) /\ c[i + 1].op = "validate")
          /\ \A i \in CallsOf(st, {"correct"}) :
               /\ i > 1
               /\ c[i - 1].op = "validate"
               /\ c[i - 1].errors # << >>

\* generate, validate, correct, validate, and a second correct in flight.
C8_Witness ==
    \E s \in Sessions :
      LET c == sess[s].calls IN
        /\ NumValidations(sess[s]) = 2
        /\ c[Len(c)].op = "correct"
        /\ c[Len(c)].result = "pending"

\* ------------------------------------------------------------------ C9

\* C9 as stated: whenever a model override is supplied, every generate and
\* correct call of the session, for either provider, uses that model.
C9_Original ==
    \A s \in Sessions :
      LET st == sess[s] IN
        \A i \in CallsOf(st, AdapterOps) :
          Truthy(st.request.model) => st.calls[i].model = st.request.model[1]

\* C9 amended: the override reaches the ollama service only.  Every ollama
\* generate and correct call uses the override when one is supplied and
\* non-empty, and the service's default model otherwise; every openai call
\* uses the openai service's default model whatever the request carries.
C9_ModelOverride ==
    \A s \in Sessions :
      LET st == sess[s] IN
        \A i \in CallsOf(st, AdapterOps) :
          /\ st.calls[i].provider = st.provider
          /\ st.provider = "ollama" =>
               st.calls[i].model = IF Truthy(st.request.model)
                                   THEN st.request.model[1]
                                   ELSE ollama_service.model
          /\ st.provider = "openai" => st.calls[i].model = openai_service.model

\* An ollama session with an override has made a correction call with it.
C9_Witness ==
    \E s \in Sessions :
      /\ sess[s].provider = "ollama"
      /\ sess[s].request.model = Some("llama3")
      /\ \E i \in CallsOf(sess[s], {"correct"}) : sess[s].calls[i].model = "llama3"

\* ----------------------------------------------------------------- C10

\* C10 as stated: for either provider a correction call's timeout is
\* strictly smaller than the timeout of the initial generation call.
C10_Original ==
    \A s \in Sessions :
      LET st == sess[s] IN
        \A g \in CallsOf(st, {"generate"}) : \A k \in CallsOf(st, {"correct"}) :
          st.calls[k].timeout < st.calls[g].timeout

\* C10 amended: a correction call's timeout is never larger than that of
\* the initial generation call; it is strictly smaller for ollama and
\* equal for openai.
C10_CorrectionTimeout ==
    \A s \in Sessions :
      LET st == sess[s] IN
        \A g \in CallsOf(st, {"generate"}) : \A k \in CallsOf(st, {"correct"}) :
          /\ st.calls[k].timeout <= st.calls[g].timeout
          /\ st.provider = "ollama" => st.calls[k].timeout < st.calls[g].timeout
          /\ st.provider = "openai" => st.calls[k].timeout = st.calls[g].timeout

\* An ollama session has made a correction call.
C10_Witness ==
    \E s \in Sessions :
      /\ sess[s].provider = "ollama"
      /\ CallsOf(sess[s], {"correct"}) # {}
      /\ sess[s].pc = "done"

\* ------------------------------------------------- _extract_yaml alone

\* The pieces LLM responses are made of here: the fence, the format tag, a
\* newline, and two words without newline, one short of the ten characters
\* that the language-identifier test of _extract_yaml allows and one of ten.
Word9 == <<"p", "s", "d", "l", "-", "s", "p", "e", "c">>

Word10 == Word9 \o <<"s">>

Chunks == {Fence, <<"y", "a", "m", "l">>, Newline, Word9, Word10}

\* Every concatenation of at most n chunks.
RECURSIVE Concatenations(_)
Concatenations(n) ==
    IF n = 0 THEN {<< >>}
    ELSE LET shorter == Concatenations(n - 1)
         IN  shorter \cup {x \o c : x \in shorter, c \in Chunks}

LLMResponses == Concatenations(MaxChunks)

\* An LLM response arrives at the services; nothing else is going on.
InitExtract ==
    /\ ServicesInit
    /\ openai_service.api_key = Some("sk-test")
    /\ raw_response \in LLMResponses
    /\ extraction = NoExtraction
    /\ psdl_scenario = NoScenario
    /\ outline_builds = << >>
    /\ inspector_hints = None
    /\ api_reply = NoReply

\* openai_service._extract_yaml(raw_response)
OpenAIExtract ==
    /\ extraction' = [extraction EXCEPT !.openai = Some(OpenAI_extract_yaml(raw_response))]
    /\ UNCHANGED <<openai_service, ollama_service, sess, raw_response,
                   psdl_scenario, outline_builds, inspector_hints, api_reply>>

\* ollama_service._extract_yaml(raw_response)
OllamaExtract ==
    /\ extraction' = [extraction EXCEPT !.ollama = Some(Ollama_extract_yaml(raw_response))]
    /\ UNCHANGED <<openai_service, ollama_service, sess, raw_response,
                   psdl_scenario, outline_builds, inspector_hints, api_reply>>

NextExtract == OpenAIExtract \/ OllamaExtract

SpecExtract == InitExtract /\ [][NextExtract]_vars

\* The texts extraction has returned so far, by either service.
Extracted == {extraction[p][1] : p \in {p \in {"openai", "ollama"} : extraction[p] # None}}

\* t is r without its leading and trailing whitespace.
IsTrimOf(t, r) ==
    /\ t # << >> => (t[1] \notin WhitespaceChars /\ t[Len(t)] \notin WhitespaceChars)
    /\ \E a \in 0..Len(r) :
         /\ a + Len(t) <= Len(r)
         /\ \A i \in 1..Len(t) : r[a + i] = t[i]
         /\ \A i \in 1..a : r[i] \in WhitespaceChars
         /\ \A i \in (a + Len(t) + 1)..Len(r) : r[i] \in WhitespaceChars

\* The part of r from 0-based index a up to, not including, b.
Between(r, a, b) == [i \in 1..(b - a) |-> r[a + i]]

\* ----------------------------------------------------------------- C11

\* C11 as stated: whenever the response holds a tagged opening marker and a
\* fence marker after it, extraction returns the trimmed text between the
\* first tagged opening marker and the next fence marker after it.
C11_TaggedFence ==
    LET open == Find(raw_response, FenceYaml, 0)
        close == Find(raw_response, Fence, open + 7)
    IN  (open # -1 /\ close # -1) =>
          \A t \in Extracted : IsTrimOf(t, Between(raw_response, open + 7, close))

\* ----------------------------------------------------------------- C12

\* C12 as stated: with no tagged fence, an opening marker, and a fence
\* marker after the point where the text starts (after the first newline if
\* it is fewer than 10 characters behind the opening marker, else right
\* behind the marker), extraction returns the trimmed text from that point
\* to that fence marker.
C12_UntaggedFence ==
    LET open == Find(raw_response, Fence, 0)
        nl == Find(raw_response, Newline, open + 3)
        from == IF nl # -1 /\ nl - (open + 3) < 10 THEN nl + 1 ELSE open + 3
        close == Find(raw_response, Fence, from)
    IN  (Find(raw_response, FenceYaml, 0) = -1 /\ open # -1 /\ close # -1) =>
          \A t \in Extracted : IsTrimOf(t, Between(raw_response, from, close))

\* ----------------------------------------------------------------- C13

\* C13: extraction returns a text for every response; when the response
\* holds no fence marker the text is the response without its leading and
\* trailing whitespace, and validate_scenario gives it a verdict like any
\* other candidate: a scenario and no error, or no scenario and one error.
C13_Fallback ==
    \A t \in Extracted :
      /\ t \in Seq({c : c \in Range(raw_response)})
      /\ Find(raw_response, Fence, 0) = -1 =>
           /\ IsTrimOf(t, raw_response)
           /\ LET v == validate_scenario(t)
              IN  \/ v.scenario # None /\ v.errors = << >>
                  \/ v.scenario = None /\ Len(v.errors) = 1

\* A response without fence, with whitespace around its text, extracted by
\* both services.
C13_Witness ==
    /\ raw_response = Newline \o Word9 \o Newline \o Word10 \o Newline
    /\ extraction.openai = Some(Word9 \o Newline \o Word10)
    /\ extraction.ollama = Some(Word9 \o Newline \o Word10)

\* ----------------------------------------------------------------- C14

\* C14: the two services extract the same text from the same response.
C14_ProviderIndependent ==
    (extraction.openai # None /\ extraction.ollama # None) =>
      extraction.openai = extraction.ollama

\* An untagged fence with a language-identifier line, extracted by both.
C14_Witness ==
    /\ raw_response = Fence \o Word9 \o Newline \o Word10 \o Fence
    /\ extraction.openai = Some(Word10)
    /\ extraction.ollama = Some(Word10)

\* ------------------------------------------------------------- outliner

\* Mutant: one list object is the default of every node ever built (a
\* mutable default instead of default_factory), so it still holds what
\* earlier builds appended.
default_factory_list_Shared ==
    IF outline_builds = << >> THEN << >>
    ELSE LET last == outline_builds[Len(outline_builds)]
         IN  IF last.signals # << >> THEN last.signals[1].used_by
             ELSE IF last.trends # << >> THEN last.trends[1].used_by
             ELSE << >>

\* Field(default_factory=list): a new empty list for every node.
default_factory_list == << >>

\* SignalOutline(name=...): used_by takes its default.
SignalOutline(name) == [name |-> name, used_by |-> default_factory_list]

\* Mutant: depends_on is not passed on and takes its default, the empty list.
TrendOutline_DropsDependency(name, depends_on) ==
    [name |-> name, depends_on |-> default_factory_list,
     used_by |-> default_factory_list]

\* TrendOutline(name=..., depends_on=...): used_by takes its default.
TrendOutline(name, depends_on) ==
    [name |-> name, depends_on |-> depends_on, used_by |-> default_factory_list]

\* Mutant: logic nodes are given a used_by list like the other nodes.
LogicOutline_WithUsedBy(name, depends_on) ==
    [name |-> name, depends_on |-> depends_on, used_by |-> default_factory_list]

\* LogicOutline(name=..., depends_on=...): the class declares no used_by.
LogicOutline(name, depends_on) == [name |-> name, depends_on |-> depends_on]

\* {n.name: n for n in nodes}[name]: the position of the node a name maps
\* to (the last one of that name), 0 when the name is no key.
MapIndex(nodes, name) ==
    LET hits == {i \in 1..Len(nodes) : nodes[i].name = name}
    IN  IF hits = {} THEN 0 ELSE CHOOSE i \in hits : \A j \in hits : j <= i

\* Mutant: the name is not looked up, every node gets the entry.
LinkOne_AnyNode(nodes, name, user) ==
    [i \in 1..Len(nodes) |-> [nodes[i] EXCEPT !.used_by = Append(@, user)]]

\* Mutant: the entry is inserted at the front of used_by.
LinkOne_Prepend(nodes, name, user) ==
    IF MapIndex(nodes, name) = 0 THEN nodes
    ELSE [nodes EXCEPT ![MapIndex(nodes, name)].used_by = <<user>> \o @]

\* if name in node_map: node_map[name].used_by.append(user)
LinkOne(nodes, name, user) ==
    IF MapIndex(nodes, name) = 0 THEN nodes
    ELSE [nodes EXCEPT ![MapIndex(nodes, name)].used_by = Append(@, user)]

\* The inner loop: for name in user.depends_on, in order.
RECURSIVE LinkAll(_, _, _)
LinkAll(nodes, depends_on, user) ==
    IF depends_on = << >> THEN nodes
    ELSE LinkAll(LinkOne(nodes, Head(depends_on), user), Tail(depends_on), user)

\* The outer loop: for user in users, in order; nodes are the used ones.
RECURSIVE LinkUsers(_, _)
LinkUsers(nodes, users) ==
    IF users = << >> THEN nodes
    ELSE LinkUsers(LinkAll(nodes, Head(users).depends_on, Head(users).name),
                   Tail(users))

\* Mutant: only the signal -> trend edges are reversed.
compute_used_by_SignalsOnly(signals, trends, logic_list) ==
    [signals |-> LinkUsers(signals, trends), trends |-> trends]

\* _compute_used_by: the node lists after its two loops.
compute_used_by(signals, trends, logic_list) ==
    [signals |-> LinkUsers(signals, trends),
     trends |-> LinkUsers(trends, logic_list)]

\* generate_outline
generate_outline(scenario) ==
    LET signals == [i \in 1..Len(scenario.signals) |->
                      SignalOutline(scenario.signals[i])]
        trends == [i \in 1..Len(scenario.trends) |->
                     TrendOutline(scenario.trends[i].name,
                                  IF Truthy(scenario.trends[i].signal)
                                  THEN <<scenario.trends[i].signal[1]>>
                                  ELSE << >>)]
        logic_list == [i \in 1..Len(scenario.logic) |->
                         LogicOutline(scenario.logic[i].name,
                                      scenario.logic[i].terms)]
        linked == compute_used_by(signals, trends, logic_list)
    IN  [scenario |-> scenario.name,
         signals |-> linked.signals,
         trends |-> linked.trends,
         logic |-> logic_list]

\* Names a scenario may use.  A name that is referenced without being
\* defined in the scenario at hand is a dangling reference.
SignalNames == {"Cr", "HR"}

TrendNames == {"cr_delta", "cr_slope"}

LogicNames == {"aki_stage1", "aki_stage2"}

\* What a logic term may name: a trend or another logic rule.
TermNames == TrendNames \cup {"aki_stage1"}

\* The sequences without repetition over a set, up to a length.
RECURSIVE Arrangements(_, _)
Arrangements(S, n) ==
    IF n = 0 THEN {<< >>}
    ELSE LET shorter == Arrangements(S, n - 1)
         IN  shorter \cup {Append(x, e) : x \in shorter, e \in S}

DistinctSeqs(S, n) ==
    {x \in Arrangements(S, n) : \A i, j \in 1..Len(x) : i # j => x[i] # x[j]}

\* An ordered mapping name -> value as a sequence of records: every order of
\* every subset of the names, with every choice of the other field.
TrendMaps ==
    UNION {[1..Len(names) -> [name : TrendNames, signal : {None} \cup {Some(n) : n \in SignalNames}]]
             : names \in DistinctSeqs(TrendNames, Cardinality(TrendNames))}

LogicMaps ==
    UNION {[1..Len(names) -> [name : LogicNames, terms : DistinctSeqs(TermNames, MaxTerms)]]
             : names \in DistinctSeqs(LogicNames, Cardinality(LogicNames))}

UniqueNames(m) == \A i, j \in 1..Len(m) : i # j => m[i].name # m[j].name

\* PSDLScenario objects as psdl-lang produces them.
Scenarios ==
    {[name |-> "scenario", signals |-> sg, trends |-> tr, logic |-> lg] :
       sg \in DistinctSeqs(SignalNames, Cardinality(SignalNames)),
       tr \in {m \in TrendMaps : UniqueNames(m)},
       lg \in {m \in LogicMaps : UniqueNames(m)}}

\* A validated scenario is at hand; nothing else is going on.
InitOutline ==
    /\ ServicesInit
    /\ openai_service.api_key = Some("sk-test")
    /\ raw_response = << >>
    /\ extraction = NoExtraction
    /\ psdl_scenario \in Scenarios
    /\ outline_builds = << >>
    /\ inspector_hints = None
    /\ api_reply = NoReply

\* generate_outline(psdl_scenario), a first and a second time.
BuildOutline ==
    /\ Len(outline_builds) < 2
    /\ outline_builds' = Append(outline_builds, generate_outline(psdl_scenario))
    /\ UNCHANGED <<openai_service, ollama_service, sess, raw_response,
                   extraction, psdl_scenario, inspector_hints, api_reply>>

NextOutline == BuildOutline

SpecOutline == InitOutline /\ [][NextOutline]_vars

\* ---------------------------------------------- claims on the outline

\* The names of a list of nodes or scenario entries, in order.
Names(nodes) == [i \in 1..Len(nodes) |-> nodes[i].name]

\* Every used_by list of the signal and trend nodes of a build.
UsedByLists(o) ==
    {o.signals[i].used_by : i \in 1..Len(o.signals)}
      \cup {o.trends[i].used_by : i \in 1..Len(o.trends)}

Builds == Range(outline_builds)

\* C15: in every build, for every trend T of the scenario and every signal
\* node S, T's signal dependency is S.name iff T.name is in S.used_by; a
\* trend whose signal dependency names no signal of the scenario has its
\* name in no used_by list, and the build still has all its nodes.
C15_SignalReverseEdges ==
    \A o \in Builds : \A T \in Range(psdl_scenario.trends) :
        /\ \A S \in Range(o.signals) :
              (T.signal = Some(S.name)) <=> (T.name \in Range(S.used_by))
        /\ (T.signal # None /\ T.signal[1] \notin Range(psdl_scenario.signals))
              => /\ \A u \in UsedByLists(o) : T.name \notin Range(u)
                 /\ Names(o.signals) = psdl_scenario.signals
                 /\ T.name \in Range(Names(o.trends))

\* A build of: signal Cr; cr_delta on Cr, cr_slope on the undefined HR.
C15_Witness ==
    /\ psdl_scenario.signals = <<"Cr">>
    /\ psdl_scenario.trends = <<[name |-> "cr_delta", signal |-> Some("Cr")],
                                [name |-> "cr_slope", signal |-> Some("HR")]>>
    /\ outline_builds # << >>
    /\ outline_builds[1].signals = <<[name |-> "Cr", used_by |-> <<"cr_delta">>]>>

\* C16: in every build, for every logic rule L of the scenario and every
\* trend node T, T.name is among L's terms iff L.name is in T.used_by; so a
\* term naming no trend of the scenario puts L.name in no trend's used_by
\* on its account.
C16_LogicReverseEdges ==
    \A o \in Builds : \A L \in Range(psdl_scenario.logic) :
        /\ \A T \in Range(o.trends) :
              (T.name \in Range(L.terms)) <=> (L.name \in Range(T.used_by))
        /\ (\A t \in Range(L.terms) : t \notin Range(Names(psdl_scenario.trends)))
              => \A T \in Range(o.trends) : L.name \notin Range(T.used_by)

\* A build where aki_stage1 names the trend cr_delta and the undefined
\* cr_slope, and aki_stage2 names only aki_stage1.
C16_Witness ==
    /\ Names(psdl_scenario.trends) = <<"cr_delta">>
    /\ psdl_scenario.logic =
         <<[name |-> "aki_stage1", terms |-> <<"cr_delta", "cr_slope">>],
           [name |-> "aki_stage2", terms |-> <<"aki_stage1">>]>>
    /\ outline_builds # << >>
    /\ outline_builds[1].trends[1].used_by = <<"aki_stage1">>

NamesWhere(entries, Test(_)) == Names(SelectSeq(entries, Test))

\* C19: in every build the three node lists name the scenario's signals,
\* trends and logic rules in the scenario's order, each signal's used_by
\* is the scenario's trends on that signal in trend order, and each
\* trend's used_by is the scenario's logic rules naming it in logic order.
C19_OrderPreserved ==
    \A o \in Builds :
        /\ Names(o.signals) = psdl_scenario.signals
        /\ Names(o.trends) = Names(psdl_scenario.trends)
        /\ Names(o.logic) = Names(psdl_scenario.logic)
        /\ \A S \in Range(o.signals) :
              LET OnS(T) == T.signal = Some(S.name)
              IN  S.used_by = NamesWhere(psdl_scenario.trends, OnS)
        /\ \A T \in Range(o.trends) :
              LET NamesT(L) == T.name \in Range(L.terms)
              IN  T.used_by = NamesWhere(psdl_scenario.logic, NamesT)

\* A build where the scenario lists everything against alphabetical order
\* and every used_by has two entries.
C19_Witness ==
    /\ psdl_scenario.signals = <<"HR", "Cr">>
    /\ Names(psdl_scenario.trends) = <<"cr_slope", "cr_delta">>
    /\ Names(psdl_scenario.logic) = <<"aki_stage2", "aki_stage1">>
    /\ outline_builds # << >>
    /\ outline_builds[1].signals[1] =
         [name |-> "HR", used_by |-> <<"cr_slope", "cr_delta">>]
    /\ outline_builds[1].trends[2].used_by = <<"aki_stage2", "aki_stage1">>

\* ------------------------------------------------- concurrent requests

\* Requests of two clients at once: each may be corrected at most once.
ConcurrentRequests ==
    {r \in Requests : /\ r.provider \in {"openai", "ollama"}
                      /\ r.clinical_context = None
                      /\ r.model # Some("")
                      /\ r.max_retries <= 1}

ReceiveConcurrent(s) == ReceiveFrom(s, ConcurrentRequests)

\* The event loop runs the handlers of both requests, switching at awaits.
NextConc ==
    \E s \in Sessions :
        \/ ReceiveConcurrent(s)
        \/ IsAvailableReturns(s)
        \/ GenerateReturns(s)
        \/ GenerateRaises(s)
        \/ CorrectReturns(s)
        \/ CorrectRaises(s)

SpecConc == Init /\ [][NextConc]_vars

\* The model name a call of the session's provider must carry.
OwnModel(st) ==
    IF st.provider = "ollama"
    THEN IF Truthy(st.request.model) THEN st.request.model[1] ELSE ollama_service.model
    ELSE openai_service.model

\* Call i of a session is made of the session's own request and of the
\* responses to the session's own earlier calls.
OwnCall(st, i) ==
    LET c == st.calls[i] IN
      /\ c.op = "generate" =>
           /\ c.provider = Lower(st.request.provider)
           /\ c.prompt = st.request.prompt
           /\ c.clinical_context = st.request.clinical_context
           /\ c.model = OwnModel(st)
      /\ c.op = "validate" =>
           /\ i > 1
           /\ st.calls[i - 1].op \in AdapterOps
           /\ st.calls[i - 1].result = "returned"
           /\ c.yaml = st.calls[i - 1].out
      /\ c.op = "correct" =>
           /\ i > 1
           /\ st.calls[i - 1].op = "validate"
           /\ c.provider = Lower(st.request.provider)
           /\ c.prompt = st.request.prompt
           /\ c.model = OwnModel(st)
           /\ c.yaml = st.calls[i - 1].yaml
           /\ c.errors = st.calls[i - 1].errors

\* The result a session returned is made of the session's own last
\* validation and its own count of validations.
OwnResult(st) ==
    HasResponse(st) =>
      /\ NumValidations(st) > 0
      /\ st.outcome.body.yaml = LastValidation(st).yaml
      /\ st.outcome.body.errors = LastValidation(st).errors
      /\ st.outcome.body.warnings = LastValidation(st).out
      /\ st.outcome.body.valid = (LastValidation(st).errors = << >>)
      /\ st.outcome.body.attempts = NumValidations(st)
      /\ st.outcome.body.attempts <= st.request.max_retries + 1

C20_OwnData ==
    \A s \in Sessions :
        /\ \A i \in 1..Len(sess[s].calls) : OwnCall(sess[s], i)
        /\ OwnResult(sess[s])

\* A step leaves the two services as they are and moves one session only.
C20_OneSessionMoves ==
    /\ openai_service' = openai_service
    /\ ollama_service' = ollama_service
    /\ \E s \in Sessions : \A t \in Sessions \ {s} : sess'[t] = sess[t]

\* C20: under every interleaving of two requests, no step writes a
\* service object or the record of more than one session, and every call
\* a session makes and the result it returns are made of its own request
\* and of the responses to its own calls.
C20_SessionsIndependent == [][C20_OneSessionMoves]_vars /\ []C20_OwnData

\* One request has returned after a correction while the other, with a
\* different prompt and a different draft, awaits its own correction.
C20_Witness ==
    /\ sess[1].pc = "await_correct"
    /\ HasResponse(sess[2])
    /\ sess[2].outcome.body.attempts = 2
    /\ sess[1].request.prompt # sess[2].request.prompt
    /\ sess[1].provider # sess[2].provider
    /\ sess[1].generated_yaml # sess[2].calls[Len(sess[2].calls) - 2].yaml
    /\ sess[1].generated_yaml # sess[2].outcome.body.yaml

\* ----------------------------------------------------------------- C23

\* C23: every correct call of a session directly follows a validation that
\* reported errors and carries that validation's candidate text, exactly
\* that validation's messages in its order (which are the messages the
\* validator gives for that text, not those of an earlier candidate), and
\* the prompt of the request.
C23_CorrectionInputs ==
    \A s \in Sessions :
      LET st == sess[s]
          c == st.calls
      IN  \A i \in CallsOf(st, {"correct"}) :
            /\ i > 1
            /\ c[i - 1].op = "validate"
            /\ c[i - 1].errors # << >>
            /\ c[i].yaml = c[i - 1].yaml
            /\ c[i].errors = c[i - 1].errors
            /\ c[i].errors = Messages(validate_scenario(c[i].yaml).errors)
            /\ c[i].prompt = st.request.prompt
            /\ \A j \in CallsOf(st, {"correct"}) : c[j].prompt = c[i].prompt

\* A second correction is under way for a candidate that differs from the
\* first rejected one, so the two validations gave different messages.
C23_Witness ==
    \E s \in Sessions :
      LET c == sess[s].calls IN
        /\ NumValidations(sess[s]) = 2
        /\ c[Len(c)].op = "correct"
        /\ \E i \in CallsOf(sess[s], {"validate"}) :
             i < Len(c) - 1 /\ c[i].errors # c[Len(c)].errors

\* ----------------------------------------------------------------- C25

\* C25: in every returned result the yaml is the text of the last
\* Validator call, and valid, errors and warnings are the verdict of the
\* validator on exactly that text.
C25_VerdictOfReturnedText ==
    \A s \in Sessions :
      LET st == sess[s]
          body == st.outcome.body
          verdict == validate_scenario(body.yaml)
      IN  HasResponse(st) =>
            /\ NumValidations(st) > 0
            /\ body.yaml = LastValidation(st).yaml
            /\ body.errors = Messages(verdict.errors)
            /\ body.warnings = Messages(verdict.warnings)
            /\ body.valid = (verdict.errors = << >>)

\* A result whose text was accepted with warnings after an earlier
\* candidate had been rejected without any.
C25_Witness ==
    \E s \in Sessions :
      /\ HasResponse(sess[s])
      /\ sess[s].outcome.body.attempts = 2
      /\ sess[s].outcome.body.valid
      /\ sess[s].outcome.body.yaml = TextUnused
      /\ sess[s].outcome.body.warnings # << >>

\* ----------------------------------------------------------------- C26

\* The calls a session has made, counted against its budget.
WithinBudget(st) ==
    /\ Cardinality(CallsOf(st, {"generate"})) <= 1
    /\ Cardinality(CallsOf(st, AdapterOps)) <= st.request.max_retries + 1
    /\ NumValidations(st) <= Cardinality(CallsOf(st, AdapterOps))
    /\ HasResponse(st) =>
         /\ NumValidations(st) = st.outcome.body.attempts
         /\ Cardinality(CallsOf(st, AdapterOps)) = st.outcome.body.attempts
         /\ Cardinality(CallsOf(st, {"generate"})) = 1
         /\ Cardinality(CallsOf(st, {"correct"})) = st.outcome.body.attempts - 1

\* C26: when every awaited call comes back, a session that has started
\* ends; it never makes more than max_retries + 1 adapter calls, and when
\* it returns a result it has made exactly attempts Validator calls and
\* attempts adapter calls: one generate and attempts - 1 corrects.
C26_BoundedTermination ==
    /\ \A s \in SoloSessions : (sess[s].pc # "idle") ~> (sess[s].pc = "done")
    /\ [](\A s \in Sessions : WithinBudget(sess[s]))

\* A session that used its whole budget of two retries and returned.
C26_Witness ==
    \E s \in Sessions :
      /\ HasResponse(sess[s])
      /\ sess[s].request.max_retries = 2
      /\ Cardinality(CallsOf(sess[s], {"correct"})) = 2
      /\ ~sess[s].outcome.body.valid

\* ----------------------------------------------------------------- C27

\* C27: when the response holds a fence marker and a further fence marker
\* after it, no extracted text holds a fence marker.
C27_NoFenceInExtracted ==
    LET open == Find(raw_response, Fence, 0)
    IN  (open # -1 /\ Find(raw_response, Fence, open + 3) # -1)
          => \A t \in Extracted : Find(t, Fence, 0) = -1

\* ----------------------------------------------------------------- C28

\* service._extract_yaml applied to the text it returned before.
OpenAIReExtract ==
    /\ extraction.openai # None
    /\ extraction' = [extraction EXCEPT
                        !.openai = Some(OpenAI_extract_yaml(extraction.openai[1]))]
    /\ UNCHANGED <<openai_service, ollama_service, sess, raw_response,
                   psdl_scenario, outline_builds, inspector_hints, api_reply>>

OllamaReExtract ==
    /\ extraction.ollama # None
    /\ extraction' = [extraction EXCEPT
                        !.ollama = Some(Ollama_extract_yaml(extraction.ollama[1]))]
    /\ UNCHANGED <<openai_service, ollama_service, sess, raw_response,
                   psdl_scenario, outline_builds, inspector_hints, api_reply>>

NextReExtract ==
    \/ OpenAIExtract
    \/ OllamaExtract
    \/ OpenAIReExtract
    \/ OllamaReExtract

SpecReExtract == InitExtract /\ [][NextReExtract]_vars

\* C28: extracting again from an extracted text gives that text: once a
\* service has returned a text, no further extraction step changes it.
C28_ExtractionIdempotent ==
    [][\A p \in {"openai", "ollama"} :
          extraction[p] # None => extraction'[p] = extraction[p]]_vars

\* ----------------------------------------------------------------- C24

\* The forward dependencies of every node of a build are those of the
\* scenario.
ForwardDependenciesCopied ==
    \A o \in Builds :
        /\ \A i \in 1..Len(o.trends) :
              /\ Len(o.trends[i].depends_on) <= 1
              /\ o.trends[i].depends_on =
                   IF psdl_scenario.trends[i].signal = None THEN << >>
                   ELSE <<psdl_scenario.trends[i].signal[1]>>
        /\ \A i \in 1..Len(o.logic) :
              o.logic[i].depends_on = psdl_scenario.logic[i].terms

\* C24: every trend node's depends_on is empty or the one signal name the
\* scenario gives, every logic node's depends_on is the scenario's terms of
\* that rule, names of logic rules and undefined names included, and no
\* build changes the scenario.
C24_ForwardDependencies ==
    []ForwardDependenciesCopied /\ [][psdl_scenario' = psdl_scenario]_vars

\* A build of a scenario with a trend on no signal, a trend on an
\* undefined signal, and a rule naming a logic rule and an undefined trend.
C24_Witness ==
    /\ psdl_scenario.signals = <<"Cr">>
    /\ psdl_scenario.trends = <<[name |-> "cr_delta", signal |-> None],
                                [name |-> "cr_slope", signal |-> Some("HR")]>>
    /\ psdl_scenario.logic =
         <<[name |-> "aki_stage2", terms |-> <<"aki_stage1", "cr_delta">>]>>
    /\ Len(outline_builds) = 2
    /\ outline_builds[2].trends[2].depends_on = <<"HR">>

\* ----------------------------------------------------------------- C29

\* _generate_inspector_hints(psdl_scenario)
GenerateHints ==
    /\ inspector_hints = None
    /\ inspector_hints' = Some(generate_inspector_hints(psdl_scenario))
    /\ UNCHANGED <<openai_service, ollama_service, sess, raw_response,
                   extraction, psdl_scenario, outline_builds, api_reply>>

\* The validator's hints and the outline of one scenario.
NextHints == BuildOutline \/ GenerateHints

SpecHints == InitOutline /\ [][NextHints]_vars

\* How many entries of a sequence equal a value.
Count(seq, v) == Cardinality({i \in 1..Len(seq) : seq[i] = v})

\* C29: once the hints and an outline of a scenario exist, a signal has
\* the unused-signal warning iff its node's used_by is empty and a trend
\* has the unused-trend warning iff its node's used_by is empty; each such
\* node has one warning, and there are no other hints.
C29_HintsAgreeWithOutline ==
    inspector_hints # None =>
      LET hints == inspector_hints[1] IN
        \A o \in Builds :
          /\ \A S \in Range(o.signals) :
                Count(hints, SignalHint(S.name)) = IF S.used_by = << >> THEN 1 ELSE 0
          /\ \A T \in Range(o.trends) :
                Count(hints, TrendHint(T.name)) = IF T.used_by = << >> THEN 1 ELSE 0
          /\ Len(hints) =
               Cardinality({i \in 1..Len(o.signals) : o.signals[i].used_by = << >>})
                 + Cardinality({i \in 1..Len(o.trends) : o.trends[i].used_by = << >>})

\* Hints and outline of a scenario with one unused and one used signal,
\* and one unused and one used trend.
C29_Witness ==
    /\ inspector_hints = Some(<<SignalHint("HR"), TrendHint("cr_slope")>>)
    /\ outline_builds # << >>
    /\ Names(outline_builds[1].signals) = <<"Cr", "HR">>
    /\ outline_builds[1].signals[1].used_by # << >>
    /\ Names(outline_builds[1].trends) = <<"cr_slope", "cr_delta">>
    /\ outline_builds[1].trends[2].used_by # << >>

\* ------------------------------------------- /validate and /export/draft

\* parser.parse_scenario: psdl-lang's parser, any exception as ParseError.
parse_scenario(content) ==
    LET parsed == psdl_parse(content)
    IN  [raised |-> parsed.raised, scenario |-> parsed.scenario,
         message |-> parsed.msg]

\* parser.scenario_to_dict: a dict with the scenario's name and entities.
scenario_to_dict(scenario) ==
    [scenario |-> scenario.name,
     signals |-> scenario.signals,
     trends |-> [i \in 1..Len(scenario.trends) |-> scenario.trends[i].name],
     logic |-> [i \in 1..Len(scenario.logic) |-> scenario.logic[i].name]]

\* ValidationResponse of POST /validate, built from validate_scenario's
\* triple v.
ValidationResponse(v) ==
    [valid |-> Len(v.errors) = 0,
     errors |-> v.errors,
     warnings |-> v.warnings,
     parsed |-> IF v.scenario # None
                THEN Some(scenario_to_dict(v.scenario[1])) ELSE None]

\* exporter.generate_certified_bundle: the scenario content and the
\* validation section of the bundle.
generate_certified_bundle(scenario, raw_yaml, errors, warnings) ==
    [scenario |-> [name |-> scenario.name, raw_yaml |-> raw_yaml,
                   parsed |-> scenario_to_dict(scenario)],
     validation |-> [valid |-> Len(errors) = 0,
                     errors |-> errors,
                     warnings |-> warnings]]

\* export_draft after validate_scenario returned v: a second parse when
\* there is no scenario, HTTP 400 when that raises, otherwise the bundle.
export_draft(content, v) ==
    LET again == parse_scenario(content)
    IN  IF v.scenario = None /\ again.raised
        THEN [status_code |-> 400, body |-> None]
        ELSE [status_code |-> 200,
              body |-> Some(generate_certified_bundle(
                               IF v.scenario = None THEN again.scenario[1]
                               ELSE v.scenario[1],
                               content, v.errors, v.warnings))]

\* The contents clients submit: the two texts psdl-lang accepts, and texts
\* it rejects.
Contents == {TextAki, TextUnused} \cup LLMResponses

\* POST /validate.  The endpoints keep nothing between requests, so one
\* request is followed.
ValidateRequest ==
    /\ api_reply = NoReply
    /\ \E content \in Contents :
         LET v == validate_scenario(content)
         IN  api_reply' = [endpoint |-> "validate", content |-> content,
                           validated |-> Some(v), status_code |-> 200,
                           body |-> Some(ValidationResponse(v))]
    /\ UNCHANGED <<openai_service, ollama_service, sess, raw_response,
                   extraction, psdl_scenario, outline_builds, inspector_hints>>

\* POST /export/draft
ExportDraftRequest ==
    /\ api_reply = NoReply
    /\ \E content \in Contents :
         LET v == validate_scenario(content)
             reply == export_draft(content, v)
         IN  api_reply' = [endpoint |-> "export_draft", content |-> content,
                           validated |-> Some(v),
                           status_code |-> reply.status_code,
                           body |-> reply.body]
    /\ UNCHANGED <<openai_service, ollama_service, sess, raw_response,
                   extraction, psdl_scenario, outline_builds, inspector_hints>>

NextContent == ValidateRequest \/ ExportDraftRequest

SpecContent == Init /\ [][NextContent]_vars

\* ----------------------------------------------------------------- C22

\* C22: whenever validation of the content submitted to /export/draft
\* fails, the endpoint returns a bundle, and the bundle's validation
\* section has valid = false and those errors.
C22_DraftBundleOnFailure ==
    (api_reply.endpoint = "export_draft" /\ api_reply.validated[1].errors # << >>)
      => /\ api_reply.status_code = 200
         /\ api_reply.body # None
         /\ ~api_reply.body[1].validation.valid
         /\ api_reply.body[1].validation.errors = api_reply.validated[1].errors

\* ----------------------------------------------------------------- C30

\* C30: validate_scenario returns a scenario iff it returns no error; a
\* failure is no scenario, one error and no warning; a success is the
\* scenario, no error and hints of severity warning only.  So the
\* /validate response has valid = true exactly when parsed is present.
C30_ScenarioIffNoErrors ==
    api_reply.validated # None =>
      LET v == api_reply.validated[1] IN
        /\ (v.scenario # None) <=> (v.errors = << >>)
        /\ v.scenario = None =>
             /\ Len(v.errors) = 1
             /\ v.errors[1].severity = "error"
             /\ v.warnings = << >>
        /\ v.scenario # None =>
             \A i \in 1..Len(v.warnings) : v.warnings[i].severity = "warning"
        /\ api_reply.endpoint = "validate" =>
             /\ api_reply.body[1].valid <=> (api_reply.body[1].parsed # None)
             /\ api_reply.body[1].valid <=> (v.errors = << >>)

\* /validate has answered an accepted content that earned two hints.
C30_Witness ==
    /\ api_reply.endpoint = "validate"
    /\ api_reply.content = TextUnused
    /\ api_reply.body[1].valid
    /\ api_reply.body[1].parsed # None
    /\ Len(api_reply.body[1].warnings) = 2

\* ------------------------------------------------------- cancellation

\* The request's task was cancelled and the handler is gone.
Cancelled == [kind |-> "cancelled", status_code |-> 0, body |-> NoResponse]

\* Mutant: the cancellation is caught like a failed call would be handled
\* by a lenient handler, and the draft so far is returned as the result.
Cancellation_ReturnsDraft(st) == Respond(Complete(st, "cancelled", << >>))

\* asyncio.CancelledError is raised at the await.  It is a BaseException,
\* so neither "except HTTPException" nor "except Exception" (lines 129-132,
\* and is_available's own handler) catches it: it leaves the handler.
Cancellation(st) ==
    [Complete(st, "cancelled", << >>) EXCEPT !.pc = "cancelled",
                                             !.outcome = Cancelled]

\* The enclosing request is cancelled while a call is awaited.
RequestCancelled(s) ==
    /\ sess[s].pc \in {"await_is_available", "await_generate", "await_correct"}
    /\ sess' = [sess EXCEPT ![s] = Cancellation(@)]
    /\ UNCHANGED <<openai_service, ollama_service, other_vars>>

NextCancel ==
    \E s \in SoloSessions :
        \/ Receive(s)
        \/ IsAvailableReturns(s)
        \/ GenerateReturns(s)
        \/ GenerateRaises(s)
        \/ CorrectReturns(s)
        \/ CorrectRaises(s)
        \/ RequestCancelled(s)

SpecCancel == Init /\ [][NextCancel]_vars

\* The call that was being awaited when the request was cancelled is the
\* session's last call, and the session has neither a result nor an HTTP
\* error.
CancelledCallIsLast ==
    \A s \in Sessions :
      LET st == sess[s] IN
        \A i \in 1..Len(st.calls) :
          st.calls[i].result = "cancelled" =>
            /\ i = Len(st.calls)
            /\ st.pc = "cancelled"
            /\ st.outcome = Cancelled
            /\ ~HasResponse(st)

\* C21: a session cancelled while awaiting a call makes no call after the
\* cancelled one (no generate, correct or Validator call), returns no
\* result and is not turned into a validation result or an HTTP error; once
\* cancelled, nothing about it changes any more.
C21_CancellationStops ==
    /\ []CancelledCallIsLast
    /\ [][\A s \in Sessions :
            sess[s].pc = "cancelled" => sess'[s] = sess[s]]_vars

\* A session cancelled while its first correction was awaited, with one
\* more retry in its budget.
C21_Witness ==
    \E s \in Sessions :
      LET c == sess[s].calls IN
        /\ sess[s].pc = "cancelled"
        /\ sess[s].request.max_retries = 2
        /\ NumValidations(sess[s]) = 1
        /\ c[Len(c)].op = "correct"
        /\ c[Len(c)].result = "cancelled"

====
